---- MODULE Spec2Model ----
(***************************************************************************)
(* mobx-url-sync: MobX store properties synchronised with URL query        *)
(* parameters.  The repository holds two variants of the engine:           *)
(*   "global"   src/src/index.ts      register, one debounced reaction     *)
(*   "perField" src/unnamed/part_000  registerField, per-field throttle    *)
(* Both are modelled; the variant is fixed by the constructor (Init).      *)
(*                                                                         *)
(* JavaScript values are pairs <<type tag, String(v)>>; a query string is  *)
(* the sequence of its <<key, value>> pairs in order; a URL string is the  *)
(* record of its origin, path and query parts (two URL strings are the     *)
(* same string iff the records are equal).                                 *)
(***************************************************************************)
EXTENDS Integers, Sequences, FiniteSets, TLC

\* ------------------------------------------------------------------ bounds
MaxTime == 3
MaxMutations == 3

\* ------------------------------------------------------------ JS values
Num(s) == <<"number", s>>
Str(s) == <<"string", s>>
Bool(s) == <<"boolean", s>>
Null == <<"null", "null">>
Undefined == <<"undefined", "undefined">>
CircleObj == <<"Circle", "c">>
OtherObj == <<"Other", "o">>

\* No value (an absent config key, an unset handle).
None == <<"none", "">>

TypeOf(v) ==
  IF v[1] \in {"number", "string", "boolean", "undefined"} THEN v[1] ELSE "object"

\* String(v)
JsString(v) ==
  IF v[1] \in {"number", "string", "boolean", "null", "undefined"}
  THEN v[2]
  ELSE "[object Object]"

\* v instanceof C, for the classes of the model: Circle extends Shape.
InstanceOf(v, C) ==
  \/ v[1] = C
  \/ v[1] = "Circle" /\ C = "Shape"

\* -------------------------------------------------------- URLSearchParams
RECURSIVE ParamsIndex(_, _, _)
ParamsIndex(qs, k, i) ==
  IF i > Len(qs) THEN 0
  ELSE IF qs[i][1] = k THEN i
  ELSE ParamsIndex(qs, k, i + 1)

ParamsHas(qs, k) == ParamsIndex(qs, k, 1) # 0

ParamsGet(qs, k) == qs[ParamsIndex(qs, k, 1)][2]

\* set: the first pair of that key is overwritten in place, a new key is appended.
ParamsSet(qs, k, s) ==
  IF ParamsHas(qs, k)
  THEN [i \in 1..Len(qs) |-> IF i = ParamsIndex(qs, k, 1) THEN <<k, s>> ELSE qs[i]]
  ELSE Append(qs, <<k, s>>)

ParamsDelete(qs, k) == SelectSeq(qs, LAMBDA kv : kv[1] # k)

\* --------------------------------------------------------- URL strings
Origin == "http://host"
Pathname == "/app"

\* The string origin + path + ("?" + query when the query is not empty).
UrlString(origin, path, qs) == [origin |-> origin, path |-> path, query |-> qs]

\* replaceState(null, '', url): a relative URL is resolved against the current
\* location, whose origin and path never change here; the query is what is stored.
ReplaceState(url) == url.query

\* --------------------------------------------------------- serializers
\* Functions are named by strings.  "String" and "asString" are the built-in
\* pair; "parseNum" is a caller-supplied deserializer that throws on input that
\* is not a number; the "shape..." and "circle..." pairs are the entries of the
\* custom serializer table handed to the constructor.
Threw == <<"threw", "">>

Serialize(f, v) ==
  CASE f = "String" -> JsString(v)
    [] f = "shapeSer" -> v[2]
    [] f = "circleSer" -> v[2]

Deserialize(f, s) ==
  CASE f = "asString" -> Str(s)
    [] f = "parseNum" -> IF s \in {"0", "1", "2"} THEN Num(s) ELSE Threw
    [] f = "shapeDe" -> <<"Shape", s>>
    [] f = "circleDe" -> <<"Circle", s>>

\* The table in insertion order (for key in this.serializers).
SerializerTable ==
  << [classConstructor |-> "Shape", serialize |-> "shapeSer", deserialize |-> "shapeDe"],
     [classConstructor |-> "Circle", serialize |-> "circleSer", deserialize |-> "circleDe"] >>

NoSerializer == [serialize |-> "", deserialize |-> ""]

RECURSIVE ScanTable(_, _)
ScanTable(val, i) ==
  IF i > Len(SerializerTable) THEN NoSerializer
  ELSE IF InstanceOf(val, SerializerTable[i].classConstructor)
       THEN [serialize |-> SerializerTable[i].serialize,
             deserialize |-> SerializerTable[i].deserialize]
       ELSE ScanTable(val, i + 1)

\* index.ts getAutoSerializer
getAutoSerializer(val) ==
  IF TypeOf(val) \in {"string", "number", "boolean"}
  THEN [serialize |-> "String", deserialize |-> "asString"]
  ELSE ScanTable(val, 1)

\* part_000 getDefaultSerializer
getDefaultSerializer(value) ==
  IF TypeOf(value) = "string" \/ TypeOf(value) = "number" \/ TypeOf(value) = "boolean"
  THEN [serialize |-> "String", deserialize |-> "asString"]
  ELSE ScanTable(value, 1)

\* ------------------------------------------------------------- state
VARIABLES
  engine,          \* which variant was constructed: "global" or "perField"
  option,          \* the delay option handed to the constructor: <<d>>, or <<>> when left out
  delay,           \* debounceDelay / throttleDelay
  now,             \* Date.now()
  store,           \* the host object's observable properties
  search,          \* window.location.search, as its pairs
  fields,          \* the fields Map, in insertion order
  timers,          \* the host's pending setTimeout callbacks
  updateTimer,     \* index.ts this.updateTimer (0: undefined)
  lastUpdateTime,  \* index.ts this.lastUpdateTime
  reactionValue,   \* the value the reaction last saw buildQueryString() return
  mutations,       \* how many assignments the application has made
  burst,           \* the run of assignments under way, and the URL written for it
  search0,         \* the query string the page was loaded with
  ev               \* what the last call did (its outcome and its flushes)

vars ==
  <<engine, option, delay, now, store, search, fields, timers, updateTimer,
    lastUpdateTime, reactionValue, mutations, burst, search0, ev>>

Props == {"p", "q"}

\* The engine's mutable state gathered in one record, so that a handler's
\* successive statements can be composed.
Cur ==
  [store |-> store, search |-> search, fields |-> fields, timers |-> timers,
   updateTimer |-> updateTimer, lastUpdateTime |-> lastUpdateTime,
   reactionValue |-> reactionValue, flushLog |-> <<>>, armed |-> FALSE]

RECURSIVE FieldIndex(_, _, _)
FieldIndex(fs, k, i) ==
  IF i > Len(fs) THEN 0
  ELSE IF fs[i].queryParam = k THEN i
  ELSE FieldIndex(fs, k, i + 1)

\* Map.has
FieldsHas(fs, k) == FieldIndex(fs, k, 1) # 0

\* Map.set: an existing key keeps its place and gets the new value.
FieldsSet(fs, k, f) ==
  IF FieldsHas(fs, k)
  THEN [i \in 1..Len(fs) |-> IF i = FieldIndex(fs, k, 1) THEN f ELSE fs[i]]
  ELSE Append(fs, f)

\* window.setTimeout's handle: a positive number no pending timer has.
NewTimerId(ts) ==
  CHOOSE n \in 1..(Cardinality(ts) + 1) :
    /\ \A t \in ts : t.id # n
    /\ \A m \in 1..(n - 1) : \E t \in ts : t.id = m

\* clearTimeout
ClearTimeout(ts, id) == {t \in ts : t.id # id}

\* ------------------------------------------------------- constructors
DEFAULT_DEBOUNCE_DELAY == 500
DEFAULT_THROTTLE_DELAY == 500

\* index.ts: this.debounceDelay = options.debounceDelay ?? DEFAULT_DEBOUNCE_DELAY
ConstructGlobal(opt) ==
  IF opt = <<>> THEN DEFAULT_DEBOUNCE_DELAY ELSE opt[1]

\* part_000: throttleDelay starts as DEFAULT_THROTTLE_DELAY and is replaced
\* if (options.throttleDelay), that is when the option is given and not 0.
ConstructPerField(opt) ==
  IF opt # <<>> /\ opt[1] # 0 THEN opt[1] ELSE DEFAULT_THROTTLE_DELAY

\* new MobXURLSync(serializers, options): the delay the engine keeps.
Construct(e, opt) ==
  IF e = "global" THEN ConstructGlobal(opt) ELSE ConstructPerField(opt)

\* ------------------------------------------- index.ts: the global engine
RECURSIVE BuildFrom(_, _, _, _)
BuildFrom(fs, st, i, params) ==
  IF i > Len(fs) THEN params
  ELSE LET f == fs[i]
           raw == st[f.property]
           str == Serialize(f.serialize, raw)
       IN  IF str # Serialize(f.serialize, f.defaultValue)
           THEN BuildFrom(fs, st, i + 1, ParamsSet(params, f.queryParam, str))
           ELSE BuildFrom(fs, st, i + 1, params)

\* buildQueryString(): params.toString()
buildQueryString(S) == BuildFrom(S.fields, S.store, 1, <<>>)

\* The test of applyUrlUpdate: newUrl !== href.split('?')[0] + location.search.
\* newUrl is the path-relative string the engine builds; href carries the origin.
UrlTrulyChanged(qs, S) ==
  UrlString("", Pathname, qs) # UrlString(Origin, Pathname, S.search)

\* applyUrlUpdate() at time t
applyUrlUpdate(S, t) ==
  LET qs == buildQueryString(S)
      wrote == UrlTrulyChanged(qs, S)
  IN  [S EXCEPT
         !.lastUpdateTime = t,
         !.search = IF wrote THEN ReplaceState(UrlString("", Pathname, qs)) ELSE @,
         !.flushLog = Append(@, [desired |-> qs, current |-> S.search,
                                 wrote |-> wrote, key |-> ""])]

\* (mutant) the delay has to be exceeded, not reached.
UpdateNowStrict(last, elapsed, d) == last = 0 \/ elapsed > d

\* The branch of scheduleUrlUpdate that writes at once.
UpdateNow(last, elapsed, d) == last = 0 \/ elapsed >= d

\* scheduleUrlUpdate() at time t
scheduleUrlUpdate(S, t) ==
  LET elapsed == t - S.lastUpdateTime
      cleared == IF S.updateTimer # 0
                 THEN [S EXCEPT !.timers = ClearTimeout(@, S.updateTimer),
                                !.updateTimer = 0]
                 ELSE S
  IN  IF UpdateNow(S.lastUpdateTime, elapsed, delay)
      THEN applyUrlUpdate(cleared, t)
      ELSE LET wait == delay - elapsed
               id == NewTimerId(cleared.timers)
           IN  [cleared EXCEPT
                  !.timers = @ \cup {[id |-> id, deadline |-> t + wait,
                                      key |-> "", params |-> <<>>]},
                  !.updateTimer = id,
                  !.armed = TRUE]

\* The constructor's reaction: when buildQueryString() returns a value other
\* than the one it returned last, scheduleUrlUpdate() runs.
Reaction(S, t) ==
  LET qs == buildQueryString(S)
  IN  IF qs # S.reactionValue
      THEN scheduleUrlUpdate([S EXCEPT !.reactionValue = qs], t)
      ELSE S

\* config.defaultValue ?? store[property]
DefaultValGlobal(cfg, st, prop) ==
  IF cfg.defaultValue \in {None, Null, Undefined} THEN st[prop] ELSE cfg.defaultValue

\* The serializer pair of register: the config's halves, the missing ones
\* filled from getAutoSerializer(defaultVal).  "" is a missing half.
ResolveGlobal(cfg, defaultVal) ==
  IF cfg.serialize = "" \/ cfg.deserialize = ""
  THEN LET auto == getAutoSerializer(defaultVal)
       IN  [serialize |-> IF cfg.serialize # "" THEN cfg.serialize ELSE auto.serialize,
            deserialize |-> IF cfg.deserialize # "" THEN cfg.deserialize
                            ELSE auto.deserialize]
  ELSE [serialize |-> cfg.serialize, deserialize |-> cfg.deserialize]

\* (mutant) the duplicate test is left out.
IsDuplicateNever(fs, k) == FALSE

\* register's duplicate test
IsDuplicate(fs, k) == FieldsHas(fs, k)

\* (mutant) the initial value is not loaded from the URL.
HydrateGlobalNever(S, prop, k, de) == S

\* Load initial value from URL if present (try / catch)
HydrateGlobal(S, prop, k, de) ==
  IF ParamsHas(S.search, k)
  THEN LET v == Deserialize(de, ParamsGet(S.search, k))
       IN  IF v = Threw THEN S ELSE [S EXCEPT !.store[prop] = v]
  ELSE S

Entry(prop, k, defaultVal, pair, observed) ==
  [queryParam |-> k, property |-> prop, defaultValue |-> defaultVal,
   serialize |-> pair.serialize, deserialize |-> pair.deserialize,
   observed |-> observed, updateTimer |-> 0, lastUpdateTime |-> 0]

\* register(store, property, queryParam, config): the outcome and the state
\* after the call, the reaction that follows the action included.
register(S, prop, k, cfg, t) ==
  IF IsDuplicate(S.fields, k)
  THEN [result |-> "duplicate", S |-> S]
  ELSE LET defaultVal == DefaultValGlobal(cfg, S.store, prop)
           pair == ResolveGlobal(cfg, defaultVal)
       IN  IF pair.serialize = "" \/ pair.deserialize = ""
           THEN [result |-> "missingSerializer", S |-> S]
           ELSE LET hyd == HydrateGlobal(S, prop, k, pair.deserialize)
                    reg == [hyd EXCEPT !.fields =
                              FieldsSet(@, k, Entry(prop, k, defaultVal, pair, TRUE))]
                IN  [result |-> "ok", S |-> Reaction(reg, t)]

\* ---------------------------------------- part_000: the per-field engine
\* The parameters the interceptor wants in the URL: the current ones with this
\* field's parameter set to the new value, or deleted when it is the default's.
NewParams(f, currentParams, newValue) ==
  LET serializedValue == Serialize(f.serialize, newValue)
  IN  IF serializedValue = Serialize(f.serialize, f.defaultValue)
      THEN ParamsDelete(currentParams, f.queryParam)
      ELSE ParamsSet(currentParams, f.queryParam, serializedValue)

\* The closure updateUrl of the field bound to k, holding newParams, run at t.
updateUrl(S, k, newParams, t) ==
  LET i == FieldIndex(S.fields, k, 1)
  IN  [S EXCEPT
         !.fields[i].updateTimer = 0,
         !.fields[i].lastUpdateTime = t,
         !.search = ReplaceState(UrlString("", Pathname, newParams)),
         !.flushLog = Append(@, [desired |-> newParams, current |-> S.search,
                                 wrote |-> TRUE, key |-> k])]

\* The interceptor's test for writing at once.
UpdateNowField(last, t, d) == last = 0 \/ t - last >= d

\* The timers left when the interceptor re-arms: the field's pending one is cleared.
ClearFieldTimer(ts, f) ==
  IF f.updateTimer # 0 THEN ClearTimeout(ts, f.updateTimer) ELSE ts

\* The interceptor of the i-th field, called with change.newValue at time t.
Interceptor(S, i, newValue, t) ==
  LET f == S.fields[i]
      currentParams == S.search
      newParams == NewParams(f, currentParams, newValue)
  IN  IF newParams = currentParams THEN S
      ELSE IF UpdateNowField(f.lastUpdateTime, t, delay)
      THEN updateUrl(S, f.queryParam, newParams, t)
      ELSE LET kept == ClearFieldTimer(S.timers, f)
               timeRemaining == delay - (t - f.lastUpdateTime)
               id == NewTimerId(kept)
           IN  [S EXCEPT
                  !.timers = kept \cup {[id |-> id, deadline |-> t + timeRemaining,
                                         key |-> f.queryParam, params |-> newParams]},
                  !.fields[i].updateTimer = id,
                  !.armed = TRUE]

\* A write of store[prop]: the interceptors installed on the property run in
\* the order they were installed, then the value is committed.
RECURSIVE RunInterceptors(_, _, _, _, _)
RunInterceptors(S, prop, newValue, t, i) ==
  IF i > Len(S.fields) THEN S
  ELSE IF S.fields[i].property = prop /\ S.fields[i].observed
       THEN RunInterceptors(Interceptor(S, i, newValue, t), prop, newValue, t, i + 1)
       ELSE RunInterceptors(S, prop, newValue, t, i + 1)

SetPropPerField(S, prop, newValue, t) ==
  [RunInterceptors(S, prop, newValue, t, 1) EXCEPT !.store[prop] = newValue]

\* config.defaultValue === undefined ? store[property] : config.defaultValue
DefaultValPerField(cfg, st, prop) ==
  IF cfg.defaultValue \in {None, Undefined} THEN st[prop] ELSE cfg.defaultValue

\* The serializer pair of registerField: the missing halves are filled from
\* getDefaultSerializer(store[property]).
ResolvePerField(cfg, st, prop) ==
  IF cfg.serialize = "" \/ cfg.deserialize = ""
  THEN LET serializer == getDefaultSerializer(st[prop])
       IN  [serialize |-> IF cfg.serialize # "" THEN cfg.serialize
                          ELSE serializer.serialize,
            deserialize |-> IF cfg.deserialize # "" THEN cfg.deserialize
                            ELSE serializer.deserialize]
  ELSE [serialize |-> cfg.serialize, deserialize |-> cfg.deserialize]

\* startInterceptorForField: intercept(field.store, field.property, ...)
startInterceptorForField(S, k) ==
  [S EXCEPT !.fields[FieldIndex(S.fields, k, 1)].observed = TRUE]

\* registerField(store, property, queryParam, config): the outcome and the state
\* after the call.  loadFromURLForField has no try: a throwing deserialize ends
\* the call after fields.set and before startInterceptorForField.
registerField(S, prop, k, cfg, t) ==
  IF IsDuplicate(S.fields, k)
  THEN [result |-> "duplicate", S |-> S]
  ELSE LET defaultVal == DefaultValPerField(cfg, S.store, prop)
           pair == ResolvePerField(cfg, S.store, prop)
       IN  IF pair.serialize = "" \/ pair.deserialize = ""
           THEN [result |-> "missingSerializer", S |-> S]
           ELSE LET set == [S EXCEPT !.fields =
                              FieldsSet(@, k, Entry(prop, k, defaultVal, pair, FALSE))]
                    has == ParamsHas(set.search, k)
                    v == IF has THEN Deserialize(pair.deserialize, ParamsGet(set.search, k))
                         ELSE None
                IN  IF v = Threw
                    THEN [result |-> "deserializeThrew", S |-> set]
                    ELSE LET loaded == IF has THEN SetPropPerField(set, prop, v, t) ELSE set
                         IN  [result |-> "ok", S |-> startInterceptorForField(loaded, k)]

\* ------------------------------------------------------------ inputs
\* The delays handed to the constructor.
OptionDelays == {2}

\* The values the properties hold at construction and take by assignment.
InitStores == {[p |-> Num("0"), q |-> OtherObj]}
MutValues == {Num("0"), Num("1"), Num("2")}

\* The query strings the page is loaded with.
InitSearches ==
  { <<>>,
    << <<"a", "x">>, <<"b", "2">> >> }

\* The config objects handed to register / registerField.
Config(d, se, de) == [defaultValue |-> d, serialize |-> se, deserialize |-> de]

\* The calls the application makes: <<property, query parameter, config>>.
Registrations ==
  { <<"p", "a", Config(None, "", "")>>,
    <<"p", "a", Config(None, "", "parseNum")>>,
    <<"q", "b", Config(Num("0"), "String", "parseNum")>>,
    <<"q", "b", Config(None, "", "")>>,
    <<"q", "a", Config(Num("1"), "", "")>>,
    <<"p", "b", Config(OtherObj, "", "")>> }

\* What a step did: the call, its arguments, what it met and how it ended.
Event(op, result, S) ==
  [op |-> op, result |-> result, flushLog |-> S.flushLog, armed |-> S.armed]

\* The query strings handed to history.replaceState during a handler, in order.
RECURSIVE WritesFrom(_, _)
WritesFrom(log, i) ==
  IF i > Len(log) THEN <<>>
  ELSE IF log[i].wrote THEN <<log[i].desired>> \o WritesFrom(log, i + 1)
  ELSE WritesFrom(log, i + 1)

Writes(S) == WritesFrom(S.flushLog, 1)

\* The parameter set the bound fields call for (the specification's desiredParams).
Desired(fs, st) == BuildFrom(fs, st, 1, <<>>)

\* The assignments under way.  property: the property whose assignment last
\* changed the desired parameters ("" when none has since the last
\* registration).  A burst is a run of such assignments to that one property,
\* less than the delay apart from the first to the last, none of them written
\* at once and no timer firing in between; start is the time of the first (0
\* when no burst is under way), and once the timer armed for them fires, fired
\* holds and written is what that callback handed to history.replaceState.
NoBurst == [property |-> "", start |-> 0, written |-> <<>>, fired |-> FALSE]

BurstAfterMutate(prop, v, S) ==
  IF Desired(fields, [store EXCEPT ![prop] = v]) = Desired(fields, store)
  THEN burst
  ELSE IF Writes(S) # <<>>
  THEN [NoBurst EXCEPT !.property = prop]
  ELSE IF burst.start > 0 /\ ~burst.fired /\ burst.property = prop /\ now - burst.start < delay
  THEN burst
  ELSE [property |-> prop, start |-> now, written |-> <<>>, fired |-> FALSE]

\* The timer t fired: it ends the burst when it is the engine's timer, or the
\* timer of a field bound to the burst's property; another field's timer
\* interrupts the burst.
BurstAfterTimer(t, S) ==
  IF burst.start = 0 \/ burst.fired THEN burst
  ELSE IF t.key = "" \/ fields[FieldIndex(fields, t.key, 1)].property = burst.property
  THEN [burst EXCEPT !.written = Writes(S), !.fired = TRUE]
  ELSE [NoBurst EXCEPT !.property = burst.property]

\* The state a handler leaves behind.
Commit(S) ==
  /\ store' = S.store
  /\ search' = S.search
  /\ fields' = S.fields
  /\ timers' = S.timers
  /\ updateTimer' = S.updateTimer
  /\ lastUpdateTime' = S.lastUpdateTime
  /\ reactionValue' = S.reactionValue

Init ==
  /\ engine \in {"global", "perField"}
  /\ option \in {<<d>> : d \in OptionDelays}
  /\ delay = Construct(engine, option)
  /\ now = 1
  /\ store \in InitStores
  /\ search \in InitSearches
  /\ fields = <<>>
  /\ timers = {}
  /\ updateTimer = 0
  /\ lastUpdateTime = 0
  /\ reactionValue = <<>>
  /\ mutations = 0
  /\ burst = NoBurst
  /\ search0 = search
  /\ ev = [op |-> "construct", result |-> "ok", flushLog |-> <<>>, armed |-> FALSE]

\* The call sync.register(store, prop, k, cfg), or sync.registerField(...) on
\* the per-field engine, made now: its outcome and the state it leaves.
Call(prop, k, cfg) ==
  IF engine = "global" THEN register(Cur, prop, k, cfg, now)
  ELSE registerField(Cur, prop, k, cfg, now)

\* The assignment store[prop] = v made now: the state it leaves.
Assign(prop, v) ==
  IF engine = "global"
  THEN Reaction([Cur EXCEPT !.store[prop] = v], now)
  ELSE SetPropPerField(Cur, prop, v, now)

Register(prop, k, cfg) ==
  LET r == Call(prop, k, cfg)
  IN  /\ Commit(r.S)
      /\ ev' = Event("register", r.result, r.S)
      /\ burst' = IF r.S.fields = fields THEN burst ELSE NoBurst
      /\ UNCHANGED <<engine, option, delay, now, mutations, search0>>

\* store[prop] = v, by the application
Mutate(prop, v) ==
  LET S == Assign(prop, v)
  IN  /\ mutations < MaxMutations
      /\ \E i \in 1..Len(fields) : fields[i].property = prop
      /\ mutations' = mutations + 1
      /\ burst' = BurstAfterMutate(prop, v, S)
      /\ Commit(S)
      /\ ev' = Event("mutate", "ok", S)
      /\ UNCHANGED <<engine, option, delay, now, search0>>

\* The host runs a setTimeout callback, no earlier than its deadline.
TimerFires(t) ==
  /\ t \in timers
  /\ now >= t.deadline
  /\ LET rest == [Cur EXCEPT !.timers = @ \ {t}]
         S == IF engine = "global"
              THEN [applyUrlUpdate(rest, now) EXCEPT !.updateTimer = 0]
              ELSE updateUrl(rest, t.key, t.params, now)
     IN  /\ Commit(S)
         /\ ev' = Event("timer", "ok", S)
         /\ burst' = BurstAfterTimer(t, S)
  /\ UNCHANGED <<engine, option, delay, now, mutations, search0>>

\* Time passes.
Tick ==
  /\ now < MaxTime
  /\ now' = now + 1
  /\ ev' = Event("tick", "ok", Cur)
  /\ UNCHANGED <<engine, option, delay, store, search, fields, timers, updateTimer,
                 lastUpdateTime, reactionValue, mutations, burst, search0>>

Next ==
  \/ \E r \in Registrations : Register(r[1], r[2], r[3])
  \/ \E prop \in Props, v \in MutValues : Mutate(prop, v)
  \/ \E t \in timers : TimerFires(t)
  \/ Tick

Spec == Init /\ [][Next]_vars

\* ------------------------------------------- other options and values
\* A second set of inputs: the delay option left out, 0 or 2; a page loaded
\* with a number in the URL; assignments of null and undefined.
ValueOptions == {<<>>, <<0>>, <<2>>}
ValueSearches == { <<>>, << <<"a", "1">> >> }
ValueMutValues == {Num("0"), Num("1"), Null, Undefined}
ValueRegistrations == { <<"p", "a", Config(None, "", "")>> }

InitValues ==
  /\ engine \in {"global", "perField"}
  /\ option \in ValueOptions
  /\ delay = Construct(engine, option)
  /\ now = 1
  /\ store \in InitStores
  /\ search \in ValueSearches
  /\ fields = <<>>
  /\ timers = {}
  /\ updateTimer = 0
  /\ lastUpdateTime = 0
  /\ reactionValue = <<>>
  /\ mutations = 0
  /\ burst = NoBurst
  /\ search0 = search
  /\ ev = [op |-> "construct", result |-> "ok", flushLog |-> <<>>, armed |-> FALSE]

NextValues ==
  \/ \E r \in ValueRegistrations : Register(r[1], r[2], r[3])
  \/ \E prop \in Props, v \in ValueMutValues : Mutate(prop, v)
  \/ \E t \in timers : TimerFires(t)
  \/ Tick

SpecValues == InitValues /\ [][NextValues]_vars

\* ------------------------------------------------------------- claims
\* The field bound to k.
FieldOf(fs, k) == fs[FieldIndex(fs, k, 1)]

\* The query string qs shows the field f as the store st has it: the
\* serialized value, or no parameter when it serializes like the default.
Reflects(f, qs, st) ==
  LET str == Serialize(f.serialize, st[f.property])
  IN  IF str = Serialize(f.serialize, f.defaultValue)
      THEN ~ParamsHas(qs, f.queryParam)
      ELSE ParamsHas(qs, f.queryParam) /\ ParamsGet(qs, f.queryParam) = str

\* The synced fields bound to the property prop.
Bound(prop) == {i \in 1..Len(fields) : fields[i].property = prop /\ fields[i].observed}

\* The property prop is synced by one field.
BoundOnce(prop) == Cardinality(Bound(prop)) = 1

\* C1 (coalescing): a burst of assignments to a property one field binds, all
\* within one delay window and none written at once, is written exactly once,
\* by the timer, and that URL carries the final value of the property.
C1_Coalescing ==
  (burst.fired /\ BoundOnce(burst.property)) =>
    /\ Len(burst.written) = 1
    /\ \A i \in Bound(burst.property) : Reflects(fields[i], burst.written[1], store)

\* C2 (start-up hydration of every field): as long as only registrations have
\* been made, every registered property whose parameter was in the URL the page
\* was loaded with holds the deserialized raw value of that parameter.
C2_HydratesEveryField ==
  mutations = 0 =>
    \A i \in 1..Len(fields) :
      LET f == fields[i]
      IN  ( /\ f.observed
            /\ Bound(f.property) = {i}
            /\ ParamsHas(search0, f.queryParam)
            /\ Deserialize(f.deserialize, ParamsGet(search0, f.queryParam)) # Threw )
          => store[f.property] = Deserialize(f.deserialize, ParamsGet(search0, f.queryParam))

\* C3 (hydration precedence): a successful registration whose parameter is in
\* the URL leaves the property equal to deserialize(raw value); the entry's
\* defaultValue is config.defaultValue, or the value the store held before; with
\* the parameter absent the store is as it was.
C3_HydrationPrecedence ==
  \A r \in Registrations :
    LET prop == r[1]
        k == r[2]
        cfg == r[3]
        res == Call(prop, k, cfg)
    IN  res.result = "ok" =>
          LET f == FieldOf(res.S.fields, k)
              has == ParamsHas(search, k)
          IN  /\ (has /\ Deserialize(f.deserialize, ParamsGet(search, k)) # Threw)
                   => res.S.store[prop] = Deserialize(f.deserialize, ParamsGet(search, k))
              /\ f.defaultValue =
                   IF cfg.defaultValue # None THEN cfg.defaultValue ELSE store[prop]
              /\ ~has => res.S.store = store

\* A registration has just hydrated "a" from the URL over the initial 0.
C3_Witness ==
  /\ ev.op = "register" /\ ev.result = "ok"
  /\ Len(fields) = 1 /\ fields[1].queryParam = "a"
  /\ ParamsHas(search0, "a")
  /\ store[fields[1].property] = Str(ParamsGet(search0, "a"))
  /\ fields[1].defaultValue = Num("0")

\* The fields a flush writes for: all of them on the global engine, the
\* closure's own field on the per-field engine.
WrittenFor(entry) ==
  IF entry.key = "" THEN {i \in 1..Len(fields) : fields[i].observed}
  ELSE {FieldIndex(fields, entry.key, 1)}

\* C4 (default elision): right after a step whose last flush wrote the URL,
\* every field the write was made for has no parameter in the URL when its
\* value serializes like its default, and its serialized value otherwise.
C4_DefaultElision ==
  (ev.flushLog # <<>> /\ ev.flushLog[Len(ev.flushLog)].wrote) =>
    \A i \in WrittenFor(ev.flushLog[Len(ev.flushLog)]) :
      Reflects(fields[i], search, store)

\* C5 (uniqueness): no two entries share a query parameter, and a call whose
\* queryParam is bound fails and leaves the engine, the store and the URL alone.
UniqueKeys(fs) ==
  \A i, j \in 1..Len(fs) : fs[i].queryParam = fs[j].queryParam => i = j

C5_Uniqueness ==
  /\ UniqueKeys(fields)
  /\ \A r \in Registrations :
       FieldsHas(fields, r[2]) =>
         LET res == Call(r[1], r[2], r[3])
         IN  res.result = "duplicate" /\ res.S = Cur

\* A call on a bound parameter has just failed, with a timer pending.
C5_Witness ==
  /\ ev.op = "register" /\ ev.result = "duplicate"
  /\ Len(fields) >= 1
  /\ timers # {}

\* C6 (idempotent no-op writes): a flush that finds the desired query string
\* equal to the one in the URL does not call history.replaceState.
C6_NoOpFlush ==
  \A i \in 1..Len(ev.flushLog) :
    ev.flushLog[i].desired = ev.flushLog[i].current => ~ev.flushLog[i].wrote

\* C7 (eventual reflection): once no timer is pending, the URL shows the
\* field of the property assigned last as the store has it.
C7_EventualReflection ==
  (timers = {} /\ BoundOnce(burst.property)) =>
    \A i \in Bound(burst.property) : Reflects(fields[i], search, store)

\* The time of the last flush the scheduler of field i goes by is at least the
\* delay back, or there was no flush: the engine's time on the global engine,
\* the field's own on the per-field engine.
QuiescentFor(i) ==
  IF engine = "global"
  THEN lastUpdateTime = 0 \/ now - lastUpdateTime >= delay
  ELSE fields[i].lastUpdateTime = 0 \/ now - fields[i].lastUpdateTime >= delay

\* In the state S the scheduler of field i has no timer pending, none that the
\* step armed, and its last flush was at t.
FlushedAt(S, i, t) ==
  /\ \A tm \in S.timers \ timers : tm.key # "" /\ tm.key # fields[i].queryParam
  /\ IF engine = "global"
     THEN S.updateTimer = 0 /\ S.lastUpdateTime = t
     ELSE S.fields[i].updateTimer = 0 /\ S.fields[i].lastUpdateTime = t

HydrationThrows(r) ==
  /\ Call(r[1], r[2], r[3]).result \notin {"duplicate", "missingSerializer"}
  /\ ParamsHas(search, r[2])
  /\ r[3].deserialize # ""
  /\ Deserialize(r[3].deserialize, ParamsGet(search, r[2])) = Threw

\* C9 (non-fatal hydration failure): a registration whose deserializer throws
\* on the URL's raw value returns normally, leaves the property as it was and
\* the field registered and observed.
C9_NonFatalHydration ==
  [][ \A r \in Registrations :
        (Register(r[1], r[2], r[3]) /\ HydrationThrows(r))
        => /\ ev'.result = "ok"
           /\ store'[r[1]] = store[r[1]]
           /\ FieldsHas(fields', r[2])
           /\ FieldOf(fields', r[2]).observed ]_vars

\* The registration r has a default value that is no primitive and matches no
\* entry of the serializer table, and does not bring both functions.
LacksSerializer(r) ==
  LET d == IF r[3].defaultValue # None THEN r[3].defaultValue ELSE store[r[1]]
  IN  /\ ~FieldsHas(fields, r[2])
      /\ TypeOf(d) \notin {"string", "number", "boolean"}
      /\ \A i \in 1..Len(SerializerTable) :
           ~InstanceOf(d, SerializerTable[i].classConstructor)
      /\ r[3].serialize = "" \/ r[3].deserialize = ""

\* C10 (missing serializer): such a registration fails, and the failed call
\* creates no entry, hydrates nothing and writes nothing.
C10_MissingSerializer ==
  [][ \A r \in Registrations :
        (Register(r[1], r[2], r[3]) /\ LacksSerializer(r))
        => /\ ev'.result = "missingSerializer"
           /\ UNCHANGED <<store, search, fields, timers, updateTimer,
                          lastUpdateTime, reactionValue>> ]_vars

\* C11 (null / undefined removal): right after a step whose last flush wrote
\* the URL, a field the write was made for, whose default is a string, number
\* or boolean and whose property now holds null or undefined, has no parameter
\* in the URL.
C11_NullRemoval ==
  (ev.flushLog # <<>> /\ ev.flushLog[Len(ev.flushLog)].wrote) =>
    \A i \in WrittenFor(ev.flushLog[Len(ev.flushLog)]) :
      ( /\ store[fields[i].property] \in {Null, Undefined}
        /\ TypeOf(fields[i].defaultValue) \in {"string", "number", "boolean"} )
      => ~ParamsHas(search, fields[i].queryParam)

\* The pair of the field f is the built-in one.
BuiltInPair(f) == f.serialize = "String" /\ f.deserialize = "asString"

\* C12 (round trip of the built-in pair): for a field synced with the built-in
\* pair, deserialize(serialize(v)) is v, same value and same type, for the
\* string, number or boolean v its property holds; and as long as only
\* registrations have been made, a property whose default is a string, number
\* or boolean holds a value of the default's type.
C12_RoundTrip ==
  \A i \in 1..Len(fields) :
    LET f == fields[i]
        v == store[f.property]
    IN  (f.observed /\ BuiltInPair(f)) =>
          /\ TypeOf(v) \in {"string", "number", "boolean"}
               => Deserialize(getAutoSerializer(v).deserialize,
                              Serialize(getAutoSerializer(v).serialize, v)) = v
          /\ TypeOf(v) \in {"string", "number", "boolean"}
               => Deserialize(getDefaultSerializer(v).deserialize,
                              Serialize(getDefaultSerializer(v).serialize, v)) = v
          /\ (mutations = 0 /\ TypeOf(f.defaultValue) \in {"string", "number", "boolean"})
               => TypeOf(v) = TypeOf(f.defaultValue)

\* The keys of a query string.
ParamsKeys(qs) == {qs[i][1] : i \in 1..Len(qs)}

\* The query strings qs1 and qs2 agree on the key k.
SameParam(qs1, qs2, k) ==
  /\ ParamsHas(qs1, k) <=> ParamsHas(qs2, k)
  /\ ParamsHas(qs1, k) => ParamsGet(qs1, k) = ParamsGet(qs2, k)

\* C13 (a flush writes the state at fire time): every URL a step has written
\* is the one the store calls for at that instant: on the global engine the
\* desired parameters of all bound fields; on the per-field engine the URL
\* found at the write, with the writing field's parameter as the store has it
\* and every other parameter left as found.
C13_FlushAtFireTime ==
  \A j \in 1..Len(ev.flushLog) :
    LET e == ev.flushLog[j]
    IN  e.wrote =>
          IF e.key = ""
          THEN e.desired = Desired(fields, store)
          ELSE /\ Reflects(FieldOf(fields, e.key), e.desired, store)
               /\ \A k \in (ParamsKeys(e.current) \cup ParamsKeys(e.desired)) \ {e.key} :
                    SameParam(e.desired, e.current, k)

\* The timer handles the engine has on record as pending.
RecordedTimers ==
  IF engine = "global"
  THEN {updateTimer} \ {0}
  ELSE {fields[i].updateTimer : i \in 1..Len(fields)} \ {0}

\* C14 (single pending write): at most one setTimeout callback of the engine
\* is pending, and the pending ones are exactly those the engine has on record.
C14_SinglePending ==
  /\ Cardinality(timers) <= 1
  /\ {t.id : t \in timers} = RecordedTimers

\* The time of the last flush the scheduler of the timer t goes by.
LastFlushFor(t) ==
  IF t.key = "" THEN lastUpdateTime ELSE FieldOf(fields, t.key).lastUpdateTime

\* C15 (bounded deferral): a pending timer is due the delay after the last
\* flush of its scheduler, however often it was re-armed.
C15_BoundedDeferral ==
  \A t \in timers : t.deadline = LastFlushFor(t) + delay

\* The time of the engine's last call of history.replaceState, 0 when there
\* was none: every flush that writes records its time, in the engine
\* (index.ts) or in the writing field (part_000).
LastWriteTime ==
  IF engine = "global" THEN lastUpdateTime
  ELSE LET times == {fields[i].lastUpdateTime : i \in 1..Len(fields)} \cup {0}
       IN  CHOOSE m \in times : \A n \in times : n <= m

\* C16 (rate limit): a step that calls history.replaceState calls it once,
\* and no sooner than the delay after the call before it.
C16_RateLimit ==
  [][ WritesFrom(ev'.flushLog, 1) # <<>> =>
        /\ Len(WritesFrom(ev'.flushLog, 1)) = 1
        /\ LastWriteTime = 0 \/ now' - LastWriteTime >= delay ]_vars

\* Values handed to the resolution: primitives, instances of the table's
\* classes (a Circle is a Shape too), an instance of no class of the table.
ResolveValues ==
  {Str("x"), Num("1"), Bool("true"), <<"Shape", "s">>, CircleObj, OtherObj, Null, Undefined}

\* The built-in pair.
BuiltIn == [serialize |-> "String", deserialize |-> "asString"]

\* The first entry of the table, in insertion order, whose class v is an
\* instance of; not-found when there is none.
FirstMatch(v) ==
  LET matches == {i \in 1..Len(SerializerTable) :
                    InstanceOf(v, SerializerTable[i].classConstructor)}
  IN  IF matches = {} THEN NoSerializer
      ELSE LET i == CHOOSE m \in matches : \A n \in matches : m <= n
           IN  [serialize |-> SerializerTable[i].serialize,
                deserialize |-> SerializerTable[i].deserialize]

\* C17 (serializer resolution): the resolution returns the built-in pair for a
\* string, number or boolean, and otherwise the first matching entry of the
\* table or not-found; and a registration on a free parameter with a primitive
\* config.defaultValue and no functions of its own succeeds with the built-in
\* pair, whatever the store holds.
C17_SerializerResolution ==
  /\ \A v \in ResolveValues :
       LET expected == IF v[1] \in {"string", "number", "boolean"} THEN BuiltIn
                       ELSE FirstMatch(v)
       IN  getAutoSerializer(v) = expected /\ getDefaultSerializer(v) = expected
  /\ \A r \in Registrations :
       ( /\ ~FieldsHas(fields, r[2])
         /\ r[3].defaultValue[1] \in {"string", "number", "boolean"}
         /\ r[3].serialize = "" /\ r[3].deserialize = "" )
       => LET res == Call(r[1], r[2], r[3])
          IN  /\ res.result = "ok"
              /\ FieldOf(res.S.fields, r[2]).serialize = "String"
              /\ FieldOf(res.S.fields, r[2]).deserialize = "asString"

\* C18 (delay configuration): the engine's delay is the option handed to the
\* constructor, 0 included, and 500 when the option is left out; with the
\* option 0 no timer is ever armed.
C18_DelayConfiguration ==
  /\ delay = IF option = <<>> THEN 500 ELSE option[1]
  /\ option = <<0>> => (timers = {} /\ ~ev.armed)

\* C19 (unbound parameters are preserved): a parameter the page was loaded
\* with, whose key no registered field is bound to, is in the URL with the
\* value it had.  (Fields are never unregistered, and the engine is the only
\* writer of the URL.)
C19_UnboundPreserved ==
  \A k \in ParamsKeys(search0) :
    ~FieldsHas(fields, k) =>
      /\ ParamsHas(search, k)
      /\ ParamsGet(search, k) = ParamsGet(search0, k)

====
